---- MODULE Spec2Model ----
(***************************************************************************)
(* Model of the OAuth2/PKCE authentication flow of the Next.js front-end:  *)
(*   - src/src/middleware.ts   the Access Guard, in its two versions       *)
(*   - src/unnamed/part_000    the PKCE initiator and the callback handler *)
(* The browser's cookie jar is the only state that outlives a request.     *)
(***************************************************************************)
EXTENDS Integers, Sequences, FiniteSets, TLC

(***************************************************************************)
(* State.                                                                  *)
(***************************************************************************)
VARIABLES
    env,        \* process.env, fixed for a run
    jar,        \* the browser's cookies: oauth_data and pkce_verifier
    inv,        \* the middleware invocation serving each request slot of the run
    resp,       \* the last answer of a route handler (initiator or callback)
    started,    \* how many verifiers the initiator has drawn
    exchanges,  \* the exchanges posted to the token endpoint so far, in order
    asked       \* what the last callback was given: code, verifier cookie, and
                \* the token endpoint's answer when it was asked

vars == <<env, jar, inv, resp, started, exchanges, asked>>

(***************************************************************************)
(* JavaScript values, as far as the handlers look at them.  A value is a   *)
(* record [kind, s, n, f]; an object keeps its members in insertion order  *)
(* as a sequence of [k, v] pairs.                                          *)
(***************************************************************************)
Undefined == [kind |-> "undefined", s |-> "", n |-> 0, f |-> <<>>]
JNull == [kind |-> "null", s |-> "", n |-> 0, f |-> <<>>]
JStr(str) == [kind |-> "string", s |-> str, n |-> 0, f |-> <<>>]
JNum(num) == [kind |-> "number", s |-> "", n |-> num, f |-> <<>>]
JObj(members) == [kind |-> "object", s |-> "", n |-> 0, f |-> members]
Member(key, val) == [k |-> key, v |-> val]

\* !x of JavaScript is ~Truthy(x)
Truthy(v) ==
    CASE v.kind = "undefined" -> FALSE
      [] v.kind = "null" -> FALSE
      [] v.kind = "string" -> v.s # ""
      [] v.kind = "number" -> v.n # 0
      [] OTHER -> TRUE

\* a || b of JavaScript
OrElse(a, b) == IF Truthy(a) THEN a ELSE b

HasKey(members, key) == \E i \in 1..Len(members) : members[i].k = key

\* obj.key on a value that is neither null nor undefined
GetProp(v, key) ==
    IF v.kind = "object" /\ HasKey(v.f, key)
    THEN LET i == CHOOSE j \in 1..Len(v.f) : v.f[j].k = key IN v.f[i].v
    ELSE Undefined

\* obj?.key
GetPropOptional(v, key) ==
    IF v.kind \in {"null", "undefined"} THEN Undefined ELSE GetProp(v, key)

Digits == <<"0", "1", "2", "3", "4", "5", "6", "7", "8", "9">>

RECURSIVE NatToString(_)
NatToString(num) ==
    IF num < 10 THEN Digits[num + 1]
    ELSE NatToString(num \div 10) \o Digits[(num % 10) + 1]

\* String(x), as a template literal and URLSearchParams.append apply it
JsString(v) ==
    CASE v.kind = "undefined" -> "undefined"
      [] v.kind = "null" -> "null"
      [] v.kind = "string" -> v.s
      [] v.kind = "number" -> NatToString(v.n)
      [] OTHER -> "[object Object]"

(***************************************************************************)
(* JSON text is a sequence of tokens [t, s, n].  JSON_stringify writes a   *)
(* value out; JSON_parse reads a text back and fails on anything that is   *)
(* not one scalar or one flat object.                                      *)
(***************************************************************************)
Tok(type) == [t |-> type, s |-> "", n |-> 0]
StrTok(str) == [t |-> "string", s |-> str, n |-> 0]
NumTok(num) == [t |-> "number", s |-> "", n |-> num]

ScalarTok(v) ==
    CASE v.kind = "string" -> StrTok(v.s)
      [] v.kind = "number" -> NumTok(v.n)
      [] OTHER -> Tok("null")

RECURSIVE MemberToks(_)
MemberToks(members) ==
    IF members = <<>> THEN <<>>
    ELSE <<StrTok(Head(members).k), Tok(":"), ScalarTok(Head(members).v)>>
         \o (IF Tail(members) = <<>> THEN <<>>
             ELSE <<Tok(",")>> \o MemberToks(Tail(members)))

JSON_stringify(v) ==
    IF v.kind = "object"
    THEN <<Tok("{")>> \o MemberToks(v.f) \o <<Tok("}")>>
    ELSE <<ScalarTok(v)>>

IsScalarTok(tok) == tok.t \in {"string", "number", "null"}

TokValue(tok) ==
    CASE tok.t = "string" -> JStr(tok.s)
      [] tok.t = "number" -> JNum(tok.n)
      [] OTHER -> JNull

\* obj[key] = val: a repeated key keeps its place and takes the later value
PutMember(members, key, val) ==
    IF HasKey(members, key)
    THEN [i \in 1..Len(members) |->
            IF members[i].k = key THEN Member(key, val) ELSE members[i]]
    ELSE Append(members, Member(key, val))

ParseFail == [ok |-> FALSE, val |-> Undefined]

RECURSIVE ParseMembers(_, _)
ParseMembers(toks, acc) ==
    IF Len(toks) < 3 \/ toks[1].t # "string" \/ toks[2].t # ":"
       \/ ~IsScalarTok(toks[3])
    THEN ParseFail
    ELSE LET acc2 == PutMember(acc, toks[1].s, TokValue(toks[3])) IN
         IF Len(toks) = 3 THEN [ok |-> TRUE, val |-> JObj(acc2)]
         ELSE IF toks[4].t # "," THEN ParseFail
         ELSE ParseMembers(SubSeq(toks, 5, Len(toks)), acc2)

JSON_parse(text) ==
    IF Len(text) = 1 /\ IsScalarTok(text[1])
    THEN [ok |-> TRUE, val |-> TokValue(text[1])]
    ELSE IF Len(text) >= 2 /\ text[1].t = "{" /\ text[Len(text)].t = "}"
    THEN IF Len(text) = 2 THEN [ok |-> TRUE, val |-> JObj(<<>>)]
         ELSE ParseMembers(SubSeq(text, 2, Len(text) - 1), <<>>)
    ELSE ParseFail

\* an optional value: <<>> when absent, <<x>> when present
None == <<>>
Some(x) == <<x>>

(***************************************************************************)
(* What a call to the provider comes back with, as axios reports it: an    *)
(* HTTP response, a failure with no response (network), or a throw that is *)
(* not an axios error.  axios resolves on 2xx and rejects otherwise.       *)
(***************************************************************************)
HttpResponse(code, body) == [type |-> "response", status |-> code, data |-> body]
NetworkError == [type |-> "network", status |-> 0, data |-> Undefined]
OtherThrow == [type |-> "exception", status |-> 0, data |-> Undefined]
NoResult == [type |-> "none", status |-> 0, data |-> Undefined]

AxiosResolves(res) == res.type = "response" /\ res.status >= 200 /\ res.status < 300
isAxiosError(res) == res.type = "network" \/ (res.type = "response" /\ ~AxiosResolves(res))
\* error.response?.status
ResponseStatus(res) == IF res.type = "response" THEN JNum(res.status) ELSE Undefined

(***************************************************************************)
(* Paths.  config.matcher decides whether Next.js invokes the middleware;  *)
(* the second version also checks the prefix itself.                       *)
(***************************************************************************)
startsWith(str, prefix) ==
    Len(str) >= Len(prefix) /\ SubSeq(str, 1, Len(prefix)) = prefix

\* mutant: the matcher written as a bare prefix
MatcherMatches_prefix(path) == startsWith(path, "/dashboard")

\* matcher: ["/dashboard/:path*"]: /dashboard itself and everything below it
MatcherMatches(path) == path = "/dashboard" \/ startsWith(path, "/dashboard/")

protectedPaths == {"/dashboard"}
IsProtectedPrefix(path) == \E p \in protectedPaths : startsWith(path, p)

(***************************************************************************)
(* One middleware invocation.                                              *)
(***************************************************************************)
LoginRedirect == "redirect:/auth/login"
ForbiddenRedirect == "redirect:/auth/forbidden"
NextReturn == "NextResponse.next"

ValidateCall(access_token) ==
    [ep |-> "GET /api/user/show",
     authorization |-> "Bearer " \o JsString(access_token),
     body |-> <<>>]

RefreshCall(refresh_token, client_id) ==
    [ep |-> "POST /oauth/token",
     authorization |-> "",
     body |-> << <<"grant_type", "refresh_token">>,
                 <<"refresh_token", JsString(refresh_token)>>,
                 <<"client_id", JsString(client_id)>> >>]

\* a ?? b
Nullish(a, b) == IF a.kind \in {"null", "undefined"} THEN b ELSE a

DefaultMaxAge == 3600

\* the cookie a response sets
OAuthCookie(bundle, age, isSecure) ==
    [name |-> "oauth_data", value |-> JSON_stringify(bundle), maxAge |-> age,
     httpOnly |-> TRUE, secure |-> isSecure, sameSite |-> "lax", path |-> "/"]

\* what the synchronous head of the middleware decides: a return, or the
\* validation call it awaits
Return(r) == [ret |-> r, access_token |-> Undefined, refresh_token |-> Undefined]
Await(at, rt) == [ret |-> "await", access_token |-> at, refresh_token |-> rt]

\* first version, up to the validation call
middleware1_head(cookie) ==
    IF cookie = None \/ cookie[1] = <<>> THEN Return(LoginRedirect)
    ELSE LET parsed == JSON_parse(cookie[1]) IN
         IF ~parsed.ok THEN Return(LoginRedirect)
         ELSE LET at == GetPropOptional(parsed.val, "access_token")
                  rt == GetPropOptional(parsed.val, "refresh_token") IN
              IF ~Truthy(at) THEN Return(LoginRedirect)
              ELSE Await(at, rt)

\* second version, up to the validation call
middleware2_head(path, cookie) ==
    IF ~IsProtectedPrefix(path) THEN Return(NextReturn)
    ELSE IF cookie = None \/ cookie[1] = <<>> THEN Return(LoginRedirect)
    ELSE LET parsed == JSON_parse(cookie[1]) IN
         IF ~parsed.ok THEN Return(LoginRedirect)
         \* destructuring null throws a TypeError outside every try
         ELSE IF parsed.val.kind = "null" THEN Return("throw")
         ELSE LET at == GetProp(parsed.val, "access_token")
                  rt == GetProp(parsed.val, "refresh_token") IN
              IF ~Truthy(at) \/ ~Truthy(rt) THEN Return(LoginRedirect)
              ELSE Await(at, rt)

\* mutant: a 403 is refreshed like a 401
middleware1_validated_refresh403(res) ==
    IF AxiosResolves(res) THEN NextReturn
    ELSE IF isAxiosError(res) /\ ResponseStatus(res) \in {JNum(401), JNum(403)}
    THEN "refresh"
    ELSE LoginRedirect

\* mutant: a validation that succeeded for one request is remembered in the
\* process and spares the other requests the check
middleware1_validated_cached(res) ==
    IF AxiosResolves(res) \/ \E q \in DOMAIN inv : AxiosResolves(inv[q].validation)
    THEN NextReturn
    ELSE IF isAxiosError(res) /\ ResponseStatus(res) = JNum(401) THEN "refresh"
    ELSE IF isAxiosError(res) /\ ResponseStatus(res) = JNum(403) THEN ForbiddenRedirect
    ELSE LoginRedirect

\* first version, once the validation call has settled: a return, or "refresh"
middleware1_validated(res) ==
    IF AxiosResolves(res) THEN NextReturn
    ELSE IF isAxiosError(res) /\ ResponseStatus(res) = JNum(401) THEN "refresh"
    ELSE IF isAxiosError(res) /\ ResponseStatus(res) = JNum(403) THEN ForbiddenRedirect
    ELSE LoginRedirect

\* mutant: only a 200 counts as valid
middleware2_validated_only200(res) ==
    IF res.type = "response" /\ res.status = 200 THEN NextReturn
    ELSE IF isAxiosError(res)
    THEN IF ResponseStatus(res) = JNum(401) THEN "refresh" ELSE "undefined"
    ELSE LoginRedirect

\* second version: an axios error other than 401 reaches the end of the
\* function, which returns undefined
middleware2_validated(res) ==
    IF AxiosResolves(res) THEN NextReturn
    ELSE IF isAxiosError(res)
    THEN IF ResponseStatus(res) = JNum(401) THEN "refresh" ELSE "undefined"
    ELSE LoginRedirect

\* the refresh try block, the same in both versions: [ret, setCookie]
RefreshOutcome(res, nodeEnv) ==
    IF AxiosResolves(res) /\ res.data.kind \notin {"null", "undefined"}
    THEN [ret |-> NextReturn,
          setCookie |-> Some(OAuthCookie(res.data,
                           Some(OrElse(GetProp(res.data, "expires_in"), JNum(DefaultMaxAge))),
                           nodeEnv = "production"))]
    ELSE [ret |-> LoginRedirect, setCookie |-> None]

\* mutant: max-age taken from expires_in with no default
middleware1_refreshed_noDefault(res, nodeEnv) ==
    IF AxiosResolves(res) /\ res.data.kind \notin {"null", "undefined"}
    THEN [ret |-> NextReturn,
          setCookie |-> Some(OAuthCookie(res.data,
                           Some(GetProp(res.data, "expires_in")),
                           nodeEnv = "production"))]
    ELSE [ret |-> LoginRedirect, setCookie |-> None]

middleware1_refreshed(res, nodeEnv) == RefreshOutcome(res, nodeEnv)

\* mutant: a failed refresh lets the request through
middleware2_refreshed_failOpen(res, nodeEnv) ==
    IF AxiosResolves(res) THEN RefreshOutcome(res, nodeEnv)
    ELSE [ret |-> NextReturn, setCookie |-> None]

middleware2_refreshed(res, nodeEnv) == RefreshOutcome(res, nodeEnv)

\* what Next.js does with what the middleware returned
Outcome(ret) ==
    CASE ret \in {NextReturn, "undefined", "notinvoked"} -> "pass"
      [] ret = LoginRedirect -> "/auth/login"
      [] ret = ForbiddenRedirect -> "/auth/forbidden"
      [] ret = "throw" -> "error"
      [] OTHER -> "none"


(***************************************************************************)
(* The PKCE initiator and the callback handler.  A route handler's answer  *)
(* is a record: status, redirect target, JSON payload, the cookies it sets *)
(* and deletes, and the request it sent to the token endpoint, if any.     *)
(***************************************************************************)
\* the n-th verifier generateCodeVerifier draws: random, so never one drawn before
generateCodeVerifier(n) == "verifier-" \o NatToString(n)

\* base64url(SHA-256(verifier)), kept symbolic
generateCodeChallenge(verifier) == "S256(" \o verifier \o ")"

NoResponse ==
    [op |-> "none", status |-> 0, location |-> "", params |-> <<>>,
     payload |-> Undefined, setCookies |-> <<>>, deleteCookies |-> {}, sent |-> None]

\* mutant: the challenge is derived from a second draw, not from the
\* verifier that goes into the cookie
start_GET_redrawn(n) ==
    [NoResponse EXCEPT
       !.op = "start", !.status = 302,
       !.location = "http://localhost:8000/start-pkce",
       !.params = << <<"code_challenge",
                       generateCodeChallenge(generateCodeVerifier(n + 1))>>,
                     <<"code_challenge_method", "S256">> >>,
       !.setCookies = << [name |-> "pkce_verifier", value |-> generateCodeVerifier(n),
                          maxAge |-> None, httpOnly |-> TRUE, secure |-> FALSE,
                          sameSite |-> "lax", path |-> "/"] >>]

\* GET of the initiator
start_GET(n) ==
    LET verifier == generateCodeVerifier(n)
        challenge == generateCodeChallenge(verifier) IN
    [NoResponse EXCEPT
       !.op = "start", !.status = 302,
       !.location = "http://localhost:8000/start-pkce",
       !.params = << <<"code_challenge", challenge>>,
                     <<"code_challenge_method", "S256">> >>,
       !.setCookies = << [name |-> "pkce_verifier", value |-> verifier,
                          maxAge |-> None, httpOnly |-> TRUE, secure |-> FALSE,
                          sameSite |-> "lax", path |-> "/"] >>]

\* mutant: code and verifier change places in the form
TokenRequest_swapped(e, code, verifier) ==
    [url |-> e.NEXT_PUBLIC_OAUTH_TOKEN_URL.s,
     body |-> << <<"grant_type", "authorization_code">>,
                 <<"client_id", JsString(Nullish(e.NEXT_PUBLIC_OAUTH_CLIENT_ID, JStr("")))>>,
                 <<"redirect_uri", JsString(Nullish(e.NEXT_PUBLIC_OAUTH_REDIRECT_URI, JStr("")))>>,
                 <<"code", verifier>>,
                 <<"code_verifier", code>> >>]

\* the exchange the callback posts to the token endpoint
TokenRequest(e, code, verifier) ==
    [url |-> e.NEXT_PUBLIC_OAUTH_TOKEN_URL.s,
     body |-> << <<"grant_type", "authorization_code">>,
                 <<"client_id", JsString(Nullish(e.NEXT_PUBLIC_OAUTH_CLIENT_ID, JStr("")))>>,
                 <<"redirect_uri", JsString(Nullish(e.NEXT_PUBLIC_OAUTH_REDIRECT_URI, JStr("")))>>,
                 <<"code", code>>,
                 <<"code_verifier", verifier>> >>]

\* err.message and err.code of an axios error
AxiosMessage(res) ==
    IF res.type = "response"
    THEN "Request failed with status code " \o NatToString(res.status)
    ELSE "Network Error"
AxiosCode(res) ==
    IF res.type # "response" THEN "ERR_NETWORK"
    ELSE IF res.status >= 500 THEN "ERR_BAD_RESPONSE" ELSE "ERR_BAD_REQUEST"

\* the catch block of the callback: the payload of its 500 answer
ErrorPayload(e, res) ==
    JObj(<<Member("error", JStr("OAuth Error"))>>
         \o (CASE isAxiosError(res) ->
                    <<Member("message", JStr(AxiosMessage(res))),
                      Member("code", JStr(AxiosCode(res))),
                      Member("status", ResponseStatus(res)),
                      Member("details", Nullish(IF res.type = "response" THEN res.data
                                                 ELSE Undefined, JNull))>>
               [] res.type = "exception" ->
                    <<Member("message", JStr(res.data.s)), Member("name", JStr("Error"))>>
                    \o (IF e.NODE_ENV # "production"
                        THEN <<Member("stack", JStr("Error: " \o res.data.s))>> ELSE <<>>)
               [] OTHER -> <<Member("details", JStr(JsString(res.data)))>>))

ErrorThrown(message) == [type |-> "exception", status |-> 0, data |-> JStr(message)]
ValueThrown(val) == [type |-> "thrown", status |-> 0, data |-> val]

\* mutant: only an absent code or verifier is refused, not an empty one
MissingInput_absentOnly(code, verifier) == code = None \/ verifier = None

\* !code || !verifier
MissingInput(code, verifier) ==
    code = None \/ code[1] = "" \/ verifier = None \/ verifier[1] = ""

\* mutant: the provider's status is handed on
ErrorStatus_passThrough(res) == IF res.type = "response" THEN res.status ELSE 500

\* the status of every answer of the catch block
ErrorStatus(res) == 500

\* the callback handler, with the cookies its success path deletes
CallbackAnswer(e, code, verifier, res, deleted) ==
    IF MissingInput(code, verifier)
    THEN [NoResponse EXCEPT
            !.op = "callback", !.status = 400,
            !.payload = JObj(<<Member("error",
                              JStr("Invalid state: missing code or verifier"))>>)]
    ELSE IF ~Truthy(e.NEXT_PUBLIC_OAUTH_TOKEN_URL)
    THEN [NoResponse EXCEPT
            !.op = "callback", !.status = ErrorStatus(ErrorThrown("Token URL not defined")),
            !.payload = ErrorPayload(e, ErrorThrown("Token URL not defined"))]
    ELSE LET request == TokenRequest(e, code[1], verifier[1]) IN
         IF AxiosResolves(res)
         THEN [NoResponse EXCEPT
                 !.op = "callback", !.status = 307,
                 !.location = JsString(e.NEXT_PUBLIC_APP_URL) \o "/dashboard",
                 !.setCookies = << [name |-> "oauth_data",
                                    value |-> JSON_stringify(res.data),
                                    maxAge |-> None, httpOnly |-> TRUE,
                                    secure |-> FALSE, sameSite |-> "lax",
                                    path |-> "/"] >>,
                 !.deleteCookies = deleted,
                 !.sent = Some(request)]
         ELSE [NoResponse EXCEPT
                 !.op = "callback", !.status = ErrorStatus(res),
                 !.payload = ErrorPayload(e, res),
                 !.sent = Some(request)]

\* mutant: the verifier cookie is left in place after a successful exchange
callback_GET_keepVerifier(e, code, verifier, res) ==
    CallbackAnswer(e, code, verifier, res, {})

\* mutant: the verifier cookie is deleted whatever the outcome
callback_GET_deleteAlways(e, code, verifier, res) ==
    [CallbackAnswer(e, code, verifier, res, {"pkce_verifier"})
       EXCEPT !.deleteCookies = {"pkce_verifier"}]

\* GET of the callback handler: code is the query parameter, verifier the
\* pkce_verifier cookie (both optional), res what the token endpoint answers
callback_GET(e, code, verifier, res) ==
    CallbackAnswer(e, code, verifier, res, {"pkce_verifier"})

\* the browser's jar after a response: cookies set, then cookies deleted
RECURSIVE SetAll(_, _)
SetAll(cookies, set) ==
    IF set = <<>> THEN cookies
    ELSE SetAll([cookies EXCEPT ![Head(set).name] = Some(Head(set).value)], Tail(set))

ApplyCookies(cookies, response) ==
    LET after == SetAll(cookies, response.setCookies) IN
    [name \in DOMAIN after |->
       IF name \in response.deleteCookies THEN None ELSE after[name]]

(***************************************************************************)
(* The inputs the model draws from.                                        *)
(***************************************************************************)
Bundle(at, rt, exp) ==
    JObj((IF at = None THEN <<>> ELSE <<Member("access_token", JStr(at[1]))>>)
         \o (IF rt = None THEN <<>> ELSE <<Member("refresh_token", JStr(rt[1]))>>)
         \o (IF exp = None THEN <<>> ELSE <<Member("expires_in", JNum(exp[1]))>>))

ShortLife == 60

\* the oauth_data cookie a browser may hold before any handler has run
InitialCookies ==
    { None,
      Some(<<>>),
      Some(<<Tok("{"), StrTok("access_token")>>),
      Some(JSON_stringify(JNull)),
      Some(JSON_stringify(JNum(7))),
      Some(JSON_stringify(Bundle(None, None, None))),
      Some(JSON_stringify(Bundle(Some(""), Some("r1"), None))),
      Some(JSON_stringify(Bundle(None, Some("r1"), None))),
      Some(JSON_stringify(Bundle(Some("a1"), None, None))),
      Some(JSON_stringify(Bundle(Some("a1"), Some(""), None))),
      Some(JSON_stringify(Bundle(Some("a1"), Some("r1"), Some(ShortLife)))) }

Paths == {"/dashboard", "/dashboard/settings", "/dashboardx", "/", "/auth/login"}
Versions == {1, 2}

ValidationResults ==
    { HttpResponse(st, JObj(<<>>)) : st \in {200, 204, 401, 403, 500} }
    \cup {NetworkError, OtherThrow}

\* token bundles the provider hands out on a refresh
RefreshBundles ==
    { Bundle(Some("a2"), Some("r2"), Some(ShortLife)),
      Bundle(Some("a2"), Some("r2"), Some(0)),
      Bundle(Some("a2"), Some("r2"), None),
      Bundle(Some("a2"), None, Some(ShortLife)) }

RefreshResults ==
    { HttpResponse(200, b) : b \in RefreshBundles }
    \cup { HttpResponse(st, JObj(<<>>)) : st \in {400, 401} }
    \cup {NetworkError, OtherThrow}

Environment(tokenUrl, clientId, nodeEnv) ==
    [NEXT_PUBLIC_OAUTH_TOKEN_URL |-> tokenUrl,
     NEXT_PUBLIC_OAUTH_CLIENT_ID |-> clientId,
     NEXT_PUBLIC_OAUTH_REDIRECT_URI |-> JStr("https://app/auth/callback"),
     NEXT_PUBLIC_APP_URL |-> JStr("https://app"),
     NODE_ENV |-> nodeEnv]

Environments ==
    { Environment(JStr("https://idp/oauth/token"), JStr("client"), "development"),
      Environment(JStr("https://idp/oauth/token"), Undefined, "production"),
      Environment(Undefined, JStr("client"), "development") }

Codes == {None, Some(""), Some("c1")}

\* the pkce_verifier cookie a browser may hold before any handler has run
InitialVerifiers == {None, Some("")}

\* token bundles the provider hands out for an authorization code
CallbackBundles == { Bundle(Some("a1"), Some("r1"), Some(ShortLife)) }

TokenResults ==
    { HttpResponse(200, b) : b \in CallbackBundles }
    \cup { HttpResponse(400, JObj(<<Member("error", JStr("invalid_grant"))>>)),
           NetworkError, ErrorThrown("socket closed"), ValueThrown(JStr("aborted")) }

MaxStarts == 2
MaxExchanges == 2

Idle ==
    [pc |-> "idle", version |-> 0, path |-> "", cookie |-> None,
     access_token |-> Undefined, refresh_token |-> Undefined,
     calls |-> <<>>, validation |-> NoResult, refresh |-> NoResult,
     ret |-> "", setCookie |-> None]

NotAsked == [code |-> None, verifier |-> None, result |-> NoResult]

Init ==
    /\ env \in Environments
    /\ \E c \in InitialCookies, v \in InitialVerifiers :
         jar = [oauth_data |-> c, pkce_verifier |-> v]
    /\ asked = NotAsked
    /\ inv = [r \in {"r1"} |-> Idle]
    /\ resp = NoResponse
    /\ started = 0
    /\ exchanges = <<>>

\* the browser sends a request; Next.js runs the middleware on it when the
\* matcher matches, and the middleware runs up to its first await
Request(r) ==
    /\ inv[r].pc = "idle"
    /\ \E ver \in Versions, p \in Paths :
         LET base == [Idle EXCEPT !.version = ver, !.path = p,
                                  !.cookie = jar.oauth_data]
             head == IF ver = 1 THEN middleware1_head(jar.oauth_data)
                     ELSE middleware2_head(p, jar.oauth_data) IN
         inv' = [inv EXCEPT ![r] =
                   IF ~MatcherMatches(p)
                   THEN [base EXCEPT !.pc = "done", !.ret = "notinvoked"]
                   ELSE IF head.ret = "await"
                   THEN [base EXCEPT !.pc = "validating",
                                     !.access_token = head.access_token,
                                     !.refresh_token = head.refresh_token,
                                     !.calls = <<ValidateCall(head.access_token)>>]
                   ELSE [base EXCEPT !.pc = "done", !.ret = head.ret]]
    /\ UNCHANGED <<env, jar, resp, started, exchanges, asked>>

\* the validation call settles
Validated(r) ==
    /\ inv[r].pc = "validating"
    /\ \E res \in ValidationResults :
         LET d == IF inv[r].version = 1 THEN middleware1_validated(res)
                  ELSE middleware2_validated(res) IN
         inv' = [inv EXCEPT ![r] =
                   IF d = "refresh"
                   THEN [@ EXCEPT !.pc = "refreshing", !.validation = res,
                            !.calls = Append(@, RefreshCall(inv[r].refresh_token,
                                        Nullish(env.NEXT_PUBLIC_OAUTH_CLIENT_ID, JStr(""))))]
                   ELSE [@ EXCEPT !.pc = "done", !.validation = res, !.ret = d]]
    /\ UNCHANGED <<env, jar, resp, started, exchanges, asked>>

\* the refresh call settles
Refreshed(r) ==
    /\ inv[r].pc = "refreshing"
    /\ \E res \in RefreshResults :
         LET o == IF inv[r].version = 1 THEN middleware1_refreshed(res, env.NODE_ENV)
                  ELSE middleware2_refreshed(res, env.NODE_ENV) IN
         inv' = [inv EXCEPT ![r] =
                   [@ EXCEPT !.pc = "done", !.refresh = res, !.ret = o.ret,
                             !.setCookie = o.setCookie]]
    /\ UNCHANGED <<env, jar, resp, started, exchanges, asked>>

\* the browser takes the response: a cookie the response sets replaces the
\* one in the jar
Respond(r) ==
    /\ inv[r].pc = "done"
    /\ jar' = IF inv[r].setCookie = None THEN jar
              ELSE [jar EXCEPT !.oauth_data = Some(inv[r].setCookie[1].value)]
    /\ inv' = [inv EXCEPT ![r] = Idle]
    /\ UNCHANGED <<env, resp, started, exchanges, asked>>

\* no middleware invocation is in flight: the browser navigates one page
\* at a time
Quiet == \A r \in DOMAIN inv : inv[r].pc = "idle"

\* the browser opens the login route
Start ==
    /\ Quiet
    /\ started < MaxStarts
    /\ started' = started + 1
    /\ resp' = start_GET(started + 1)
    /\ jar' = ApplyCookies(jar, resp')
    /\ UNCHANGED <<env, inv, exchanges, asked>>

\* the provider sends the browser back to the callback route
Callback ==
    /\ Quiet
    /\ \E code \in Codes, res \in TokenResults :
         /\ resp' = callback_GET(env, code, jar.pkce_verifier, res)
         /\ resp'.sent # None => Len(exchanges) < MaxExchanges
         /\ exchanges' = IF resp'.sent = None THEN exchanges
                         ELSE Append(exchanges,
                                [code |-> code[1], verifier |-> jar.pkce_verifier[1],
                                 ok |-> AxiosResolves(res)])
         /\ asked' = [code |-> code, verifier |-> jar.pkce_verifier,
                      result |-> IF resp'.sent = None THEN NoResult ELSE res]
    /\ jar' = ApplyCookies(jar, resp')
    /\ UNCHANGED <<env, inv, started>>

Next ==
    \/ \E r \in DOMAIN inv : Request(r)
    \/ \E r \in DOMAIN inv : Validated(r)
    \/ \E r \in DOMAIN inv : Refreshed(r)
    \/ \E r \in DOMAIN inv : Respond(r)
    \/ Start
    \/ Callback

Spec == Init /\ [][Next]_vars

(***************************************************************************)
(* Two requests in flight at once: the middleware serves each in its own   *)
(* invocation, and the steps of the two interleave freely.                 *)
(***************************************************************************)
Requests == {"r1", "r2"}

ConcurrentCookies ==
    { Some(JSON_stringify(Bundle(Some("a1"), None, None))),
      Some(JSON_stringify(Bundle(Some("a1"), Some("r1"), Some(ShortLife)))) }

InitConcurrent ==
    /\ env = Environment(JStr("https://idp/oauth/token"), JStr("client"), "production")
    /\ \E c \in ConcurrentCookies : jar = [oauth_data |-> c, pkce_verifier |-> None]
    /\ asked = NotAsked
    /\ inv = [r \in Requests |-> Idle]
    /\ resp = NoResponse
    /\ started = 0
    /\ exchanges = <<>>

NextConcurrent ==
    \/ \E r \in DOMAIN inv : Request(r)
    \/ \E r \in DOMAIN inv : Validated(r)
    \/ \E r \in DOMAIN inv : Refreshed(r)
    \/ \E r \in DOMAIN inv : Respond(r)

SpecConcurrent == InitConcurrent /\ [][NextConcurrent]_vars

(***************************************************************************)
(* The claims.                                                             *)
(***************************************************************************)
\* the protected tree of the documentation: /dashboard and what lies below it
UnderDashboard(path) ==
    path = "/dashboard"
    \/ (Len(path) >= 11 /\ SubSeq(path, 1, 11) = "/dashboard/")

HasStatus(res, code) == res.type = "response" /\ res.status = code
Settled(res) == res.type # "none"
Served == {r \in DOMAIN inv : inv[r].pc = "done"}

\* C1: on a protected path, a validation call that fails with HTTP 403 ends
\* in a redirect to /auth/forbidden, in either version of the middleware.
C1_Forbidden403 ==
    \A r \in Served :
        HasStatus(inv[r].validation, 403) => Outcome(inv[r].ret) = "/auth/forbidden"

\* C2: on a protected path, a validation call that fails with anything but
\* 401 or 403 (another status, no response, a throw that is not an axios
\* error) ends in a redirect to /auth/login, in either version.
C2_OtherFailureDenied ==
    \A r \in Served :
        ( /\ Settled(inv[r].validation)
          /\ ~AxiosResolves(inv[r].validation)
          /\ ~HasStatus(inv[r].validation, 401)
          /\ ~HasStatus(inv[r].validation, 403) )
        => Outcome(inv[r].ret) = "/auth/login"

\* the cookie is absent, is no JSON, or parses to a value with no non-empty
\* access_token
NoAccessToken(cookie) ==
    \/ cookie = None
    \/ ~JSON_parse(cookie[1]).ok
    \/ ~Truthy(GetPropOptional(JSON_parse(cookie[1]).val, "access_token"))

\* C3: on a protected path, a request whose oauth_data cookie is absent, is
\* not JSON, or carries no non-empty access_token is redirected to
\* /auth/login without any call to the provider.
C3_NoTokenNoCall ==
    \A r \in DOMAIN inv :
        (inv[r].pc # "idle" /\ UnderDashboard(inv[r].path) /\ NoAccessToken(inv[r].cookie))
        => /\ inv[r].pc = "done"
           /\ Outcome(inv[r].ret) = "/auth/login"
           /\ inv[r].calls = <<>>

\* the max-age the refresh response asks for: its expires_in, or 3600 when
\* that is absent or zero
ExpectedMaxAge(data) ==
    IF HasKey(data.f, "expires_in") /\ GetProp(data, "expires_in") # JNum(0)
    THEN GetProp(data, "expires_in")
    ELSE JNum(3600)

RefreshSucceeded(r) ==
    /\ inv[r].pc = "done"
    /\ HasStatus(inv[r].validation, 401)
    /\ AxiosResolves(inv[r].refresh)

\* C4: when validation answers 401 and the refresh succeeds, the request
\* passes and the response sets oauth_data to the text of exactly the
\* provider's refresh response, with max-age expires_in, or 3600 when
\* expires_in is absent or zero.
C4_RefreshRewritesCookie ==
    \A r \in DOMAIN inv :
        RefreshSucceeded(r)
        => /\ inv[r].ret = NextReturn
           /\ Outcome(inv[r].ret) = "pass"
           /\ inv[r].setCookie # None
           /\ inv[r].setCookie[1].name = "oauth_data"
           /\ JSON_parse(inv[r].setCookie[1].value) =
                [ok |-> TRUE, val |-> inv[r].refresh.data]
           /\ inv[r].setCookie[1].maxAge = Some(ExpectedMaxAge(inv[r].refresh.data))

\* a refresh answer without refresh_token replaced a cookie that had one
C4_Witness ==
    \E r \in DOMAIN inv :
        /\ RefreshSucceeded(r)
        /\ Truthy(inv[r].refresh_token)
        /\ ~HasKey(inv[r].refresh.data.f, "refresh_token")
        /\ inv[r].setCookie # None

RefreshFailed(r) ==
    /\ inv[r].pc = "done"
    /\ HasStatus(inv[r].validation, 401)
    /\ Settled(inv[r].refresh)
    /\ ~AxiosResolves(inv[r].refresh)

\* C5: when validation answers 401 and the refresh fails (an HTTP error or a
\* throw), the request is redirected to /auth/login and no cookie is set.
C5_RefreshFailureDenied ==
    \A r \in DOMAIN inv :
        RefreshFailed(r)
        => Outcome(inv[r].ret) = "/auth/login" /\ inv[r].setCookie = None

C5_Witness ==
    \E r \in DOMAIN inv :
        RefreshFailed(r) /\ inv[r].version = 2 /\ inv[r].refresh.type = "network"

\* C6: an invocation calls the provider at most twice and in a fixed order:
\* the validation call first and once, then at most one refresh call, made
\* only after validation answered 401; once the refresh has settled the
\* invocation is over with those two calls.
C6_CallOrder ==
    \A r \in DOMAIN inv :
        LET c == inv[r].calls IN
        /\ Len(c) <= 2
        /\ Len(c) >= 1 => c[1].ep = "GET /api/user/show"
        /\ Len(c) = 2 => c[2].ep = "POST /oauth/token" /\ HasStatus(inv[r].validation, 401)
        /\ inv[r].pc = "validating" => Len(c) = 1
        /\ inv[r].pc = "refreshing" => Len(c) = 2
        /\ Settled(inv[r].validation) /\ ~HasStatus(inv[r].validation, 401) => Len(c) = 1
        /\ Settled(inv[r].refresh) => inv[r].pc = "done" /\ Len(c) = 2

C6_Witness ==
    \E r \in DOMAIN inv :
        /\ inv[r].pc = "done"
        /\ Settled(inv[r].refresh)
        /\ Len(inv[r].calls) = 2

\* C7: when validation answers 2xx the request passes as it came: the
\* response sets no cookie, the jar keeps the cookie the request carried,
\* and no refresh call is made.
C7_ValidPassesUnmodified ==
    \A r \in Served :
        AxiosResolves(inv[r].validation)
        => /\ inv[r].ret = NextReturn
           /\ inv[r].setCookie = None
           /\ jar.oauth_data = inv[r].cookie
           /\ Len(inv[r].calls) = 1
           /\ inv[r].refresh = NoResult

C7_Witness ==
    \E r \in Served :
        HasStatus(inv[r].validation, 204) /\ inv[r].ret = NextReturn

\* the cookie parses to an object that lacks a non-empty access_token or a
\* non-empty refresh_token
MissingToken(cookie) ==
    /\ cookie # None
    /\ JSON_parse(cookie[1]).ok
    /\ JSON_parse(cookie[1]).val.kind = "object"
    /\ \/ ~Truthy(GetProp(JSON_parse(cookie[1]).val, "access_token"))
       \/ ~Truthy(GetProp(JSON_parse(cookie[1]).val, "refresh_token"))

\* C8: on a protected path, a cookie that parses but lacks the access token
\* or the refresh token is redirected to /auth/login before any validation
\* call, in either version (stated here for cookies that parse to an object).
C8_MissingTokenDenied ==
    \A r \in DOMAIN inv :
        (inv[r].pc # "idle" /\ UnderDashboard(inv[r].path) /\ MissingToken(inv[r].cookie))
        => /\ inv[r].pc = "done"
           /\ inv[r].ret = LoginRedirect
           /\ inv[r].calls = <<>>

\* C9: a request whose path is not /dashboard or below it makes no provider
\* call and is not redirected, whatever cookie it carries and whichever
\* version of the middleware is deployed.
C9_UnprotectedBypass ==
    \A r \in DOMAIN inv :
        (inv[r].pc # "idle" /\ ~UnderDashboard(inv[r].path))
        => /\ inv[r].pc = "done"
           /\ inv[r].calls = <<>>
           /\ Outcome(inv[r].ret) = "pass"
           /\ inv[r].setCookie = None

\* /dashboardx, which shares the prefix but is not in the tree, with a cookie
\* that would be refused on a protected path
C9_Witness ==
    \E r \in Served :
        /\ inv[r].path = "/dashboardx"
        /\ inv[r].version = 2
        /\ NoAccessToken(inv[r].cookie)

\* C10: every verifier is posted to the token endpoint at most once, whether
\* its exchange succeeded or failed.
C10_VerifierPostedOnce ==
    \A i, j \in 1..Len(exchanges) :
        i < j => exchanges[i].verifier # exchanges[j].verifier

\* C10, amended: a verifier whose exchange succeeded is never posted again; a
\* verifier whose exchange failed stays in the cookie and may be posted again.
C10_VerifierRedeemedOnce ==
    \A i, j \in 1..Len(exchanges) :
        (i < j /\ exchanges[i].ok) => exchanges[i].verifier # exchanges[j].verifier

C10_Witness ==
    /\ Len(exchanges) = 2
    /\ exchanges[1].ok
    /\ resp.op = "callback"
    /\ resp.sent # None

\* the last callback had a code and a verifier cookie, both non-empty
Present(a) ==
    /\ a.code # None /\ a.code # Some("")
    /\ a.verifier # None /\ a.verifier # Some("")

FormField(request, key) ==
    LET i == CHOOSE j \in 1..Len(request.body) : request.body[j][1] = key
    IN request.body[i][2]

\* C11: a callback with a code and a stored verifier whose exchange succeeds
\* redirects to {APP_URL}/dashboard, sets oauth_data to exactly the
\* provider's response and deletes pkce_verifier; the exchange it posted
\* carried that code and that verifier with grant_type=authorization_code.
C11_CallbackSuccess ==
    (resp.op = "callback" /\ Present(asked) /\ AxiosResolves(asked.result))
    => /\ resp.status \in 300..399
       /\ resp.location = env.NEXT_PUBLIC_APP_URL.s \o "/dashboard"
       /\ Len(resp.setCookies) = 1
       /\ resp.setCookies[1].name = "oauth_data"
       /\ JSON_parse(resp.setCookies[1].value) = [ok |-> TRUE, val |-> asked.result.data]
       /\ resp.deleteCookies = {"pkce_verifier"}
       /\ jar.pkce_verifier = None
       /\ resp.sent # None
       /\ FormField(resp.sent[1], "grant_type") = "authorization_code"
       /\ FormField(resp.sent[1], "code") = asked.code[1]
       /\ FormField(resp.sent[1], "code_verifier") = asked.verifier[1]

C11_Witness ==
    /\ resp.op = "callback"
    /\ Present(asked)
    /\ AxiosResolves(asked.result)
    /\ resp.status = 307
    /\ asked.verifier = Some(generateCodeVerifier(2))

\* C12: a callback whose code is missing or empty, or whose pkce_verifier
\* cookie is missing or empty, answers 400 with the payload
\* {error: "Invalid state: missing code or verifier"}, posts nothing to the
\* token endpoint and sets or deletes no cookie.
C12_MissingInput400 ==
    (resp.op = "callback" /\ ~Present(asked))
    => /\ resp.status = 400
       /\ resp.payload = JObj(<<Member("error",
                                  JStr("Invalid state: missing code or verifier"))>>)
       /\ resp.sent = None
       /\ asked.result = NoResult
       /\ resp.setCookies = <<>>
       /\ resp.deleteCookies = {}

\* a code arrives while the verifier cookie is there but empty
C12_Witness ==
    /\ resp.op = "callback"
    /\ resp.status = 400
    /\ asked.code = Some("c1")
    /\ asked.verifier = Some("")

\* the exchange was not made or did not succeed
ExchangeFailed(a) == ~AxiosResolves(a.result)

\* C13: once the presence check is passed, every failure (provider HTTP
\* error, network error, missing token URL, any other thrown value) answers
\* 500 with an error payload, never a redirect and never a 2xx or 4xx.
C13_Failure500 ==
    (resp.op = "callback" /\ Present(asked) /\ ExchangeFailed(asked))
    => /\ resp.status = 500
       /\ resp.location = ""
       /\ resp.payload.kind = "object"
       /\ GetProp(resp.payload, "error") = JStr("OAuth Error")

C13_Witness ==
    /\ resp.op = "callback"
    /\ Present(asked)
    /\ HasStatus(asked.result, 400)
    /\ resp.status = 500

\* the max-age of a cookie write equals the expires_in of the bundle written
AgedByBundle(cookie, data) == cookie.maxAge = Some(GetProp(data, "expires_in"))

\* C14: every write of oauth_data, by the callback and by the middleware's
\* refresh, sets max-age to the expires_in of the provider response it
\* stores (stated here for responses that carry a positive expires_in).
C14_MaxAgeIsExpiresIn ==
    /\ \A r \in DOMAIN inv :
          (inv[r].setCookie # None /\ Truthy(GetProp(inv[r].refresh.data, "expires_in")))
          => AgedByBundle(inv[r].setCookie[1], inv[r].refresh.data)
    /\ \A i \in 1..Len(resp.setCookies) :
          (resp.setCookies[i].name = "oauth_data"
             /\ Truthy(GetProp(asked.result.data, "expires_in")))
          => AgedByBundle(resp.setCookies[i], asked.result.data)

ParamOf(response, key) ==
    LET i == CHOOSE j \in 1..Len(response.params) : response.params[j][1] = key
    IN response.params[i][2]

\* C15: start() puts the verifier it drew into the pkce_verifier cookie and
\* redirects with the challenge of that same verifier and method S256; the
\* cookie then holds the verifier of the latest start(), and an exchange a
\* callback posts carries the verifier of the latest start().
C15_VerifierOfLatestStart ==
    [][ /\ Start =>
            /\ Len(resp'.setCookies) = 1
            /\ resp'.setCookies[1].name = "pkce_verifier"
            /\ resp'.setCookies[1].value = generateCodeVerifier(started')
            /\ jar'.pkce_verifier = Some(generateCodeVerifier(started'))
            /\ resp'.location = "http://localhost:8000/start-pkce"
            /\ ParamOf(resp', "code_challenge") =
                 generateCodeChallenge(resp'.setCookies[1].value)
            /\ ParamOf(resp', "code_challenge_method") = "S256"
        /\ Len(exchanges') > Len(exchanges) =>
            /\ started > 0
            /\ exchanges'[Len(exchanges')].verifier = generateCodeVerifier(started)
            /\ FormField(resp'.sent[1], "code_verifier") = generateCodeVerifier(started)
      ]_vars

\* a second start() replaced the first verifier and a callback posted the second
C15_Witness ==
    /\ started = 2
    /\ resp.op = "callback"
    /\ resp.sent # None
    /\ FormField(resp.sent[1], "code_verifier") = generateCodeVerifier(2)
    /\ exchanges = <<[code |-> "c1", verifier |-> generateCodeVerifier(2),
                      ok |-> AxiosResolves(asked.result)]>>

\* what the outside sees of a decision taken after validation
Seen(decision) == IF decision = "refresh" THEN "refresh" ELSE Outcome(decision)

\* C16: on a protected path the two versions of the middleware behave alike:
\* on the cookie of any request and on any answer of the provider they reach
\* the same outcome, make the same calls and write the same cookie.
C16_VersionsAgree ==
    \A r \in DOMAIN inv :
        (inv[r].pc # "idle" /\ UnderDashboard(inv[r].path))
        => /\ LET h1 == middleware1_head(inv[r].cookie)
                  h2 == middleware2_head(inv[r].path, inv[r].cookie) IN
              /\ Seen(h1.ret) = Seen(h2.ret)
              /\ h1.ret = "await" =>
                    /\ ValidateCall(h1.access_token) = ValidateCall(h2.access_token)
                    /\ JsString(h1.refresh_token) = JsString(h2.refresh_token)
           /\ Settled(inv[r].validation) =>
                 Seen(middleware1_validated(inv[r].validation))
                   = Seen(middleware2_validated(inv[r].validation))
           /\ Settled(inv[r].refresh) =>
                 middleware1_refreshed(inv[r].refresh, env.NODE_ENV)
                   = middleware2_refreshed(inv[r].refresh, env.NODE_ENV)

\* one of the two confirmations the provider can give
Confirmed(r) ==
    \/ AxiosResolves(inv[r].validation)
    \/ HasStatus(inv[r].validation, 401) /\ AxiosResolves(inv[r].refresh)

\* C17: a request to a protected path is passed through only after a 2xx
\* from the validation call, or a 401 from it followed by a successful
\* refresh; no path through the middleware, the end of the function
\* included, lets it through without one of the two.
C17_PassOnlyConfirmed ==
    \A r \in Served :
        (UnderDashboard(inv[r].path) /\ Outcome(inv[r].ret) = "pass") => Confirmed(r)

\* what an invocation comes to when it runs alone: a function of its version,
\* its request's path and cookie, and the provider's answers to its own calls
Alone(i) ==
    LET base == [Idle EXCEPT !.version = i.version, !.path = i.path,
                             !.cookie = i.cookie]
        head == IF i.version = 1 THEN middleware1_head(i.cookie)
                ELSE middleware2_head(i.path, i.cookie)
        called == [base EXCEPT !.access_token = head.access_token,
                               !.refresh_token = head.refresh_token,
                               !.calls = <<ValidateCall(head.access_token)>>]
        d == IF i.version = 1 THEN middleware1_validated(i.validation)
             ELSE middleware2_validated(i.validation)
        again == [called EXCEPT !.validation = i.validation,
                    !.calls = Append(@, RefreshCall(head.refresh_token,
                                Nullish(env.NEXT_PUBLIC_OAUTH_CLIENT_ID, JStr(""))))]
        o == IF i.version = 1 THEN middleware1_refreshed(i.refresh, env.NODE_ENV)
             ELSE middleware2_refreshed(i.refresh, env.NODE_ENV)
    IN  IF ~UnderDashboard(i.path)
        THEN [base EXCEPT !.pc = "done", !.ret = "notinvoked"]
        ELSE IF head.ret # "await" THEN [base EXCEPT !.pc = "done", !.ret = head.ret]
        ELSE IF ~Settled(i.validation) THEN [called EXCEPT !.pc = "validating"]
        ELSE IF d # "refresh"
        THEN [called EXCEPT !.pc = "done", !.validation = i.validation, !.ret = d]
        ELSE IF ~Settled(i.refresh) THEN [again EXCEPT !.pc = "refreshing"]
        ELSE [again EXCEPT !.pc = "done", !.refresh = i.refresh, !.ret = o.ret,
                           !.setCookie = o.setCookie]

\* C18: under any interleaving of middleware invocations, each invocation's
\* calls, outcome and cookie write are those it would have alone: they depend
\* on its own request and on the answers to its own calls, and on nothing
\* another invocation did.
C18_NoSharedState ==
    \A r \in DOMAIN inv : inv[r].pc # "idle" => inv[r] = Alone(inv[r])

\* two requests carried the same expired bundle; the provider refreshed the
\* one and refused the other
C18_Witness ==
    /\ inv["r1"].cookie = inv["r2"].cookie
    /\ inv["r1"].version = inv["r2"].version
    /\ RefreshSucceeded("r1")
    /\ RefreshFailed("r2")

\* C19: a callback that answers 400 or 500 sets no cookie and deletes none,
\* so the jar stays as it was and the stored verifier survives a failed
\* exchange; oauth_data changes only with a callback whose exchange
\* succeeded or with a middleware refresh that succeeded.
C19_FailedCallbackKeepsCookies ==
    [][ /\ (Callback /\ resp'.status \in {400, 500}) =>
              /\ resp'.setCookies = <<>>
              /\ resp'.deleteCookies = {}
              /\ jar' = jar
        /\ jar'.oauth_data # jar.oauth_data =>
              \/ Callback /\ resp'.status = 307 /\ AxiosResolves(asked'.result)
              \/ \E r \in DOMAIN inv : Respond(r) /\ RefreshSucceeded(r)
      ]_vars

\* an exchange was posted and failed, and the verifier it carried is still
\* in the jar
C19_Witness ==
    /\ resp.op = "callback"
    /\ resp.status = 500
    /\ resp.sent # None
    /\ asked.verifier = Some(generateCodeVerifier(1))
    /\ jar.pkce_verifier = asked.verifier
====
